---- MODULE Spec2Model ----
(***************************************************************************)
(* The tutoring session of ai-tutor-backend: the stored session record and *)
(* the request surface that loads it, mutates it and saves it.             *)
(*                                                                         *)
(* One session id is modelled.  `session` is the record held by the        *)
(* session store (the JSON file written by SessionManager.save_session)    *)
(* and `stored` tells whether the file exists: after DELETE /session/{id}  *)
(* it does not, and `session` keeps the record last held.                  *)
(* `requests` holds, for each of two clients, the position of its          *)
(* POST /chat/submit-answer request inside the server (SpecConcurrent).    *)
(* Every request is one action: it loads the stored record, runs the whole *)
(* handler on the copy, and the stored record changes only where the       *)
(* handler reaches save_session.  The reply of the reasoning service is    *)
(* the input of the action.                                                *)
(*                                                                         *)
(* mastery_score is kept in quarters (the code adds 0.25, which is exact   *)
(* in binary floating point): 3 quarters is the 0.75 threshold.            *)
(* accuracy_rate is kept as the fraction <<numerator, denominator>>, in     *)
(* lowest terms, of the division the code performs.                        *)
(* Timestamps, message texts, the conversation buffer and the teaching log *)
(* never feed a decision of the handlers below and are not part of the     *)
(* record.                                                                 *)
(*                                                                         *)
(* `disk` and `saving` are the sessions directory below that store: the    *)
(* session file, the temporary file and the callers of save_session that   *)
(* are between their open and their rename (SpecSave).  `conversation` is  *)
(* the message buffer of the record (context), which only add_message      *)
(* writes, with the messages its callers have passed so far (sent)         *)
(* (SpecConversation).  `grading` is one question on its way through the   *)
(* orchestrator: the question data of a service reply, the question        *)
(* _parse_question_from_llm makes of it, and the result of _check_answer   *)
(* for a submitted answer (SpecEvaluator).                                 *)
(***************************************************************************)
EXTENDS Integers, Sequences, FiniteSets, TLC

VARIABLES session, stored, requests, disk, saving, conversation, grading

vars == <<session, stored, requests, disk, saving, conversation, grading>>

(***************************************************************************)
(* Bounds of the model.                                                    *)
(***************************************************************************)
\* concepts of a generated study plan (every specification)
MaxConcepts == 2
\* Spec: recorded diagnostic questions, evaluated answers, hints, taught concepts
MaxQuestions == 1
MaxAnswers == 1
MaxHints == 1
MaxTaught == 1
\* SpecDiagnostic: recorded diagnostic questions (above MAX_DIAGNOSTIC_QUESTIONS),
\* evaluated answers, taught concepts
MaxDiagnosticQuestions == 7
MaxDiagnosticAnswers == 2
MaxDiagnosticTaught == 1
\* SpecTeaching: evaluated answers, hints, taught concepts
MaxPracticeAnswers == 3
MaxPracticeHints == 1
MaxPracticeTaught == 1

\* SpecStats: evaluated answers (and correct ones), hints, xp
MaxStatsAnswers == 2
MaxStatsHints == 1
MaxStatsXp == 30

\* SpecConcurrent: evaluated answers of one client
MaxClientAnswers == 2

\* SpecSave: the writes json.dump needs for the text of one record
MaxChunks == 2

\* SpecConversation: the add_message calls on one record
MaxMessages == 12

(***************************************************************************)
(* Program constants.                                                      *)
(***************************************************************************)
MAX_DIAGNOSTIC_QUESTIONS == 6
\* 0.75, in quarters
MASTERY_QUARTERS == 3
\* the completion bonus
MASTERY_BONUS_XP == 20
\* xp of a correct answer when the service names none
DEFAULT_XP_CORRECT == 10

\* session_manager.py: the messages add_message keeps
RECENT_MESSAGES == 10

(***************************************************************************)
(* Enumerations of models/session.py.                                      *)
(***************************************************************************)
CurrentPhase ==
    {"topic_selection", "diagnostic", "plan_generation", "teaching",
     "assessment", "reteach", "wrapup"}

SessionStatus == {"active", "paused", "completed", "abandoned"}

PhaseStatus == {"pending", "in_progress", "completed", "skipped"}

ConceptStatus == {"not_started", "learning", "mastered", "needs_review", "skipped"}

\* diagnostic.assessment is None until the diagnostic completes
NoAssessment == <<>>

Max(a, b) == IF a >= b THEN a ELSE b

\* ConceptPlan as generate_study_plan builds it
ConceptPlan == [status |-> "not_started", attempts |-> 0, mastery_score |-> 0]

\* Session() as SessionManager.create_session stores it
NewSession ==
    [current_phase |-> "topic_selection",
     status |-> "active",
     diagnostic_status |-> "pending",
     diagnostic_questions |-> 0,
     assessment |-> NoAssessment,
     concepts |-> <<>>,
     current_concept_index |-> 0,
     questions_attempted |-> 0,
     questions_correct |-> 0,
     accuracy_rate |-> <<0, 1>>,
     hints_used |-> 0,
     concepts_taught |-> 0,
     concepts_mastered |-> 0,
     xp_earned |-> 0]

(***************************************************************************)
(* Replies of the reasoning service (llm.generate_sync).  success = FALSE  *)
(* is a failed call or a reply with no JSON in it.  A "malformed" part is  *)
(* a payload the handler raises on (an unknown difficulty or               *)
(* teaching_approach value, an ill-typed field).                           *)
(***************************************************************************)
Part == {"absent", "valid", "malformed"}

NextAction ==
    {"next_question", "give_hint", "retry", "reteach", "next_concept", "assessment"}

\* xp_earned of an evaluation reply: absent (the default applies) or <<number>>
XpAbsent == <<>>
XpReplies == {XpAbsent, <<-10>>}

StartDiagnosticReplies ==
    {[success |-> FALSE, question |-> "absent"]}
        \cup [success : {TRUE}, question : Part]

\* final_assessment.score of a diagnostic evaluation reply: absent or <<fraction>>
ScoreAbsent == <<>>
ScoreReplies == {ScoreAbsent, <<<<1, 1>>>>}

DiagnosticEvalReplies ==
    {[success |-> FALSE, is_correct |-> FALSE, diagnostic_complete |-> FALSE,
      next_question |-> "absent", score |-> ScoreAbsent]}
        \cup [success : {TRUE}, is_correct : BOOLEAN,
              diagnostic_complete : BOOLEAN, next_question : Part,
              score : ScoreReplies]

StudyPlanReplies ==
    {[success |-> FALSE, concepts |-> 0, malformed |-> FALSE]}
        \cup [success : {TRUE}, concepts : 0..MaxConcepts, malformed : BOOLEAN]

TeachingReplies ==
    {[success |-> FALSE, practice_question |-> "absent"]}
        \cup [success : {TRUE}, practice_question : Part]

AnswerEvalReplies ==
    {[success |-> FALSE, is_correct |-> FALSE, next_action |-> "next_question",
      xp_earned |-> XpAbsent, next_question |-> "absent"]}
        \cup [success : {TRUE}, is_correct : BOOLEAN, next_action : NextAction,
              xp_earned : XpReplies, next_question : Part]

WrapupReplies ==
    {[success |-> FALSE, malformed |-> FALSE]}
        \cup [success : {TRUE}, malformed : BOOLEAN]

(***************************************************************************)
(* The outcome of a handler: the record the store holds afterwards and the *)
(* APIResponse returned (raised = TRUE: the handler raised instead).       *)
(***************************************************************************)
\* load_session returns None when the store holds no record for the id
None == [absent |-> TRUE]

\* the outcome of a handler that called the reasoning service
Outcome(saved, success, phase, error, raised) ==
    [session |-> saved,
     response |-> [success |-> success, current_phase |-> phase, error |-> error],
     raised |-> raised,
     llm_calls |-> 1]

\* the outcome of a handler that returned without calling the service
Early(saved, success, phase, error) ==
    [session |-> saved,
     response |-> [success |-> success, current_phase |-> phase, error |-> error],
     raised |-> FALSE,
     llm_calls |-> 0]

\* NotFound with a record created for the unknown id
NotFound_CreatesRecord(phase) == Early(NewSession, FALSE, phase, "Session not found")

\* `if not session: return APIResponse(success=False, ..., error="Session not found")`
NotFound(phase) == Early(None, FALSE, phase, "Session not found")

\* the concept current_concept_index points at, when it points at one
HasCurrentConcept(sess) == sess.current_concept_index < Len(sess.concepts)

CurrentConcept(sess) == sess.concepts[sess.current_concept_index + 1]

RECURSIVE GCD(_, _)
GCD(a, b) == IF b = 0 THEN a ELSE GCD(b, a % b)

\* the quotient a / b of the float division, as the fraction in lowest terms
\* (two divisions give the same float exactly when the fractions are equal)
Quotient(a, b) == <<a \div GCD(a, b), b \div GCD(a, b)>>

\* the accuracy computed over the count before the current answer
Accuracy_PreviousCount(correct, attempted) ==
    Quotient(correct, Max(1, attempted - 1))

\* stats.accuracy_rate = questions_correct / max(1, questions_attempted)
Accuracy(correct, attempted) == Quotient(correct, Max(1, attempted))

(***************************************************************************)
(* TutorOrchestrator.wrap_up_session: no try/except; the record is saved   *)
(* whether the service call succeeded or not, unless building the display  *)
(* from a malformed payload raises first.                                  *)
(***************************************************************************)
wrap_up_session(sess, w) ==
    LET s1 == [sess EXCEPT !.current_phase = "wrapup", !.status = "completed"]
    IN  IF sess = None
        THEN NotFound("wrapup")
        ELSE IF w.success /\ w.malformed
        THEN Outcome(sess, FALSE, "wrapup", "raised", TRUE)
        ELSE Outcome(s1, TRUE, "wrapup", "", FALSE)

(***************************************************************************)
(* TutorOrchestrator.start_diagnostic                                      *)
(***************************************************************************)
start_diagnostic(sess, r) ==
    LET s1 == [sess EXCEPT !.current_phase = "diagnostic",
                           !.diagnostic_status = "in_progress",
                           !.diagnostic_questions = @ + 1]
    IN  IF sess = None
        THEN NotFound("diagnostic")
        ELSE IF ~r.success
        THEN Outcome(sess, FALSE, "diagnostic", "llm", FALSE)
        ELSE IF r.question = "malformed"
        THEN Outcome(sess, FALSE, "diagnostic", "exception", FALSE)
        ELSE Outcome(s1, TRUE, "diagnostic", "", FALSE)

(***************************************************************************)
(* TutorOrchestrator.submit_diagnostic_answer                              *)
(***************************************************************************)
\* the score of the assessment, taken from the reply when it proposes one
AssessmentScore_Proposed(r, accuracy) ==
    IF r.score = ScoreAbsent THEN accuracy ELSE r.score[1]

\* DiagnosticAssessment(score=session.stats.accuracy_rate, ...)
AssessmentScore(r, accuracy) == accuracy

\* the diagnostic handing over to a phase of its own for the assessment
PhaseAfterDiagnostic_Assessment == "assessment"

\* "Move to plan generation"
PhaseAfterDiagnostic == "plan_generation"

submit_diagnostic_answer(sess, r) ==
    LET attempted == sess.questions_attempted + 1
        correct == sess.questions_correct + (IF r.is_correct THEN 1 ELSE 0)
        s1 == [sess EXCEPT !.questions_attempted = attempted,
                           !.questions_correct = correct,
                           !.accuracy_rate = Accuracy(correct, attempted)]
        done == [s1 EXCEPT !.assessment = <<AssessmentScore(r, s1.accuracy_rate)>>,
                           !.diagnostic_status = "completed",
                           !.current_phase = PhaseAfterDiagnostic]
        more == [s1 EXCEPT !.diagnostic_questions = @ + 1]
    IN  IF sess = None
        THEN NotFound("diagnostic")
        ELSE IF ~r.success
        THEN Outcome(sess, FALSE, "diagnostic", "llm", FALSE)
        ELSE IF r.diagnostic_complete
                \/ sess.diagnostic_questions >= MAX_DIAGNOSTIC_QUESTIONS
        THEN Outcome(done, TRUE, done.current_phase, "", FALSE)
        ELSE IF r.next_question = "absent"
        THEN Outcome(s1, TRUE, s1.current_phase, "", FALSE)
        ELSE IF r.next_question = "malformed"
        THEN Outcome(sess, FALSE, "diagnostic", "exception", FALSE)
        ELSE Outcome(more, TRUE, more.current_phase, "", FALSE)

(***************************************************************************)
(* TutorOrchestrator.generate_study_plan                                   *)
(***************************************************************************)
\* a plan that starts its counters afresh
generate_study_plan_FreshStats(sess, r) ==
    LET s1 == [sess EXCEPT !.concepts = [i \in 1..r.concepts |-> ConceptPlan],
                           !.current_concept_index = 0,
                           !.current_phase = "teaching",
                           !.questions_attempted = 0,
                           !.questions_correct = 0,
                           !.hints_used = 0,
                           !.concepts_mastered = 0]
    IN  IF sess = None
        THEN NotFound("plan_generation")
        ELSE IF ~r.success
        THEN Outcome(sess, FALSE, "plan_generation", "llm", FALSE)
        ELSE IF r.malformed /\ r.concepts > 0
        THEN Outcome(sess, FALSE, "plan_generation", "exception", FALSE)
        ELSE Outcome(s1, TRUE, "teaching", "", FALSE)

generate_study_plan(sess, r) ==
    LET s1 == [sess EXCEPT !.concepts = [i \in 1..r.concepts |-> ConceptPlan],
                           !.current_concept_index = 0,
                           !.current_phase = "teaching"]
    IN  IF sess = None
        THEN NotFound("plan_generation")
        ELSE IF ~r.success
        THEN Outcome(sess, FALSE, "plan_generation", "llm", FALSE)
        ELSE IF r.malformed /\ r.concepts > 0
        THEN Outcome(sess, FALSE, "plan_generation", "exception", FALSE)
        ELSE Outcome(s1, TRUE, "teaching", "", FALSE)

(***************************************************************************)
(* TutorOrchestrator.start_teaching_concept; w is the reply to the wrap-up *)
(* prompt, read when the handler hands over to wrap_up_session.            *)
(***************************************************************************)
start_teaching_concept(sess, r, w) ==
    LET k == sess.current_concept_index + 1
        s1 == [sess EXCEPT !.concepts[k].status = "learning",
                           !.concepts[k].attempts = 0,
                           !.concepts_taught = @ + 1]
    IN  IF sess = None
        THEN NotFound("teaching")
        ELSE IF sess.concepts = <<>>
        THEN Early(sess, FALSE, "teaching", "No study plan")
        ELSE IF ~HasCurrentConcept(sess)
        THEN \* inside the try: what wrap_up_session raises is caught here
             IF wrap_up_session(sess, w).raised
             THEN Outcome(sess, FALSE, "teaching", "exception", FALSE)
             ELSE wrap_up_session(sess, w)
        ELSE IF ~r.success
        THEN Outcome(sess, FALSE, "teaching", "llm", FALSE)
        ELSE IF r.practice_question = "malformed"
        THEN Outcome(sess, FALSE, "teaching", "exception", FALSE)
        ELSE Outcome(s1, TRUE, "teaching", "", FALSE)

(***************************************************************************)
(* TutorOrchestrator.submit_practice_answer: no try/except.                *)
(***************************************************************************)
\* xp = response_data.get("xp_earned", 10 if is_correct else 0)
AnswerXp(r) ==
    IF r.xp_earned = XpAbsent
    THEN (IF r.is_correct THEN DEFAULT_XP_CORRECT ELSE 0)
    ELSE r.xp_earned[1]

\* ConceptDone with the threshold test off by one (> for >=)
ConceptDone_AboveThreshold(r, mastery) ==
    r.next_action = "next_concept" \/ (r.is_correct /\ mastery > MASTERY_QUARTERS)

\* the condition of the first branch of "Handle next action"
ConceptDone(r, mastery) ==
    r.next_action = "next_concept" \/ (r.is_correct /\ mastery >= MASTERY_QUARTERS)

submit_practice_answer(sess, r, w) ==
    LET k == sess.current_concept_index + 1
        attempted == sess.questions_attempted + 1
        correct == sess.questions_correct + (IF r.is_correct THEN 1 ELSE 0)
        mastery == sess.concepts[k].mastery_score + (IF r.is_correct THEN 1 ELSE 0)
        \* "Update stats"
        s1 == [sess EXCEPT !.concepts[k].attempts = @ + 1,
                           !.concepts[k].mastery_score = mastery,
                           !.questions_attempted = attempted,
                           !.questions_correct = correct,
                           !.xp_earned = @ + AnswerXp(r),
                           !.accuracy_rate = Accuracy(correct, attempted)]
        index == sess.current_concept_index + 1
        mastered == [s1 EXCEPT !.concepts[k].status = "mastered",
                               !.concepts_mastered = @ + 1,
                               !.current_concept_index = index,
                               !.xp_earned = @ + MASTERY_BONUS_XP,
                               !.current_phase =
                                   IF index >= Len(sess.concepts) THEN "wrapup" ELSE @]
        reteach == [s1 EXCEPT !.current_phase = "reteach"]
        hinted == [s1 EXCEPT !.hints_used = @ + 1]
    IN  IF sess = None
        THEN NotFound("teaching")
        ELSE IF ~HasCurrentConcept(sess)
        THEN wrap_up_session(sess, w)
        ELSE IF ~r.success
        THEN Outcome(sess, FALSE, "teaching", "llm", FALSE)
        ELSE IF ConceptDone(r, mastery)
        THEN Outcome(mastered, TRUE, mastered.current_phase, "", FALSE)
        ELSE IF r.next_action = "reteach"
        THEN Outcome(reteach, TRUE, reteach.current_phase, "", FALSE)
        ELSE IF r.next_action = "give_hint"
        THEN Outcome(hinted, TRUE, hinted.current_phase, "", FALSE)
        ELSE IF r.next_action \in {"next_question", "retry"}
                /\ r.next_question = "malformed"
        THEN Outcome(sess, FALSE, "teaching", "raised", TRUE)
        ELSE Outcome(s1, TRUE, s1.current_phase, "", FALSE)

(***************************************************************************)
(* TutorOrchestrator.get_hint                                              *)
(***************************************************************************)
\* a hint that counts as an attempt on the current concept
get_hint_CountsAttempt(sess) ==
    LET s1 == IF HasCurrentConcept(sess)
              THEN [sess EXCEPT !.hints_used = @ + 1,
                                !.concepts[sess.current_concept_index + 1].attempts = @ + 1]
              ELSE [sess EXCEPT !.hints_used = @ + 1]
    IN  IF sess = None
        THEN NotFound("teaching")
        ELSE Early(s1, TRUE, s1.current_phase, "")

get_hint(sess) ==
    LET s1 == [sess EXCEPT !.hints_used = @ + 1]
    IN  IF sess = None
        THEN NotFound("teaching")
        ELSE Early(s1, TRUE, s1.current_phase, "")

(***************************************************************************)
(* SessionManager.update_stats                                             *)
(***************************************************************************)
update_stats(sess, questions_attempted, questions_correct, hints_used, xp_earned) ==
    LET attempted == sess.questions_attempted + questions_attempted
        correct == sess.questions_correct + questions_correct
    IN  [sess EXCEPT !.questions_attempted = attempted,
                     !.questions_correct = correct,
                     !.hints_used = @ + hints_used,
                     !.xp_earned = @ + xp_earned,
                     !.accuracy_rate =
                         IF attempted > 0 THEN Quotient(correct, attempted) ELSE @]

(***************************************************************************)
(* routers/chat.py                                                         *)
(***************************************************************************)
\* `if not session_manager.session_exists(session_id): raise HTTPException(404)`
HttpNotFound == Early(None, FALSE, "none", "Session not found")

\* skip_concept without the idx < len(concepts) test before the increment
skip_concept_NoBoundTest(sess, r, w) ==
    start_teaching_concept(
        [sess EXCEPT !.current_concept_index = @ + 1], r, w)

\* the skip that moves the index and leaves the status of the concept
skip_concept_KeepsStatus(sess, r, w) ==
    LET s1 == IF sess.concepts # <<>> /\ HasCurrentConcept(sess)
              THEN [sess EXCEPT !.current_concept_index = @ + 1]
              ELSE sess
    IN  IF sess = None THEN HttpNotFound ELSE start_teaching_concept(s1, r, w)

\* POST /chat/skip-concept: the skip is saved before start_teaching_concept runs
skip_concept(sess, r, w) ==
    LET k == sess.current_concept_index + 1
        s1 == IF sess.concepts # <<>> /\ HasCurrentConcept(sess)
              THEN [sess EXCEPT !.concepts[k].status = "skipped",
                                !.current_concept_index = @ + 1]
              ELSE sess
    IN  IF sess = None THEN HttpNotFound ELSE start_teaching_concept(s1, r, w)

\* POST /chat/message: routed by the stored phase
send_message(sess, d, a, w) ==
    IF sess = None
    THEN HttpNotFound
    ELSE IF sess.current_phase = "diagnostic" /\ sess.diagnostic_questions > 0
    THEN submit_diagnostic_answer(sess, d)
    ELSE IF sess.current_phase = "teaching"
    THEN submit_practice_answer(sess, a, w)
    ELSE Early(sess, TRUE, sess.current_phase, "")

\* POST /chat/next: routed by the stored phase
next_step(sess, q, p, t, w) ==
    CASE sess = None -> HttpNotFound
      [] sess.current_phase = "topic_selection" -> start_diagnostic(sess, q)
      [] sess.current_phase = "diagnostic" ->
            IF sess.diagnostic_status = "completed"
            THEN generate_study_plan(sess, p)
            ELSE start_diagnostic(sess, q)
      [] sess.current_phase = "plan_generation" -> generate_study_plan(sess, p)
      [] sess.current_phase \in {"teaching", "reteach", "assessment"} ->
            start_teaching_concept(sess, t, w)
      [] sess.current_phase = "wrapup" -> wrap_up_session(sess, w)

(***************************************************************************)
(* The state machine: one action per request.                              *)
(***************************************************************************)
\* SessionManager.load_session
load_session == IF stored THEN session ELSE None

\* the request ends with the store holding the record the handler saved, if
\* it saved one
Save(outcome) ==
    /\ session' = IF outcome.session = None THEN session ELSE outcome.session
    /\ stored' = (outcome.session # None)

\* a request handled from its load to its save in one step
Store(outcome) ==
    Save(outcome) /\ UNCHANGED <<requests, disk, saving, conversation, grading>>

\* the clients that post answers concurrently
Clients == {"c1", "c2"}

\* pc: idle, waiting (the request has reached the server), running (the
\* handler has loaded the record: loaded = <<record>>); evaluated: the
\* responses with success = true this client got for an evaluated answer
NoRequest == [pc |-> "idle", loaded |-> <<>>, evaluated |-> 0]

(***************************************************************************)
(* Texts.  A text is the sequence of its characters, so that lower(),      *)
(* strip(), startswith(), split() and float() are computed on it.  The     *)
(* characters are those of the texts below; numbers are kept in            *)
(* thousandths, and the numerals of the model have at most three decimals. *)
(***************************************************************************)
LowerChar(c) ==
    CASE c = "A" -> "a"
      [] c = "B" -> "b"
      [] c = "E" -> "e"
      [] c = "N" -> "n"
      [] c = "P" -> "p"
      [] c = "T" -> "t"
      [] c = "Y" -> "y"
      [] OTHER -> c

\* str.lower()
Lower(s) == [i \in 1..Len(s) |-> LowerChar(s[i])]

\* str.strip()
RECURSIVE Strip(_)
Strip(s) ==
    IF s = <<>> THEN s
    ELSE IF s[1] = " " THEN Strip(Tail(s))
    ELSE IF s[Len(s)] = " " THEN Strip(SubSeq(s, 1, Len(s) - 1))
    ELSE s

\* str(answer).strip().lower()
StripLower(s) == Lower(Strip(s))

\* str.startswith(prefix)
StartsWith(s, prefix) ==
    Len(prefix) <= Len(s) /\ SubSeq(s, 1, Len(prefix)) = prefix

\* part in s
Contains(s, part) ==
    \E i \in 0..(Len(s) - Len(part)) : SubSeq(s, i + 1, i + Len(part)) = part

\* s[:1]
FirstChar(s) == IF s = <<>> THEN s ELSE <<s[1]>>

\* s.split(")", 1)[1], for a text that holds a ")"
AfterParen(s) ==
    LET i == CHOOSE k \in 1..Len(s) : s[k] = ")" /\ \A j \in 1..(k - 1) : s[j] # ")"
    IN  SubSeq(s, i + 1, Len(s))

Digits == <<"0", "1", "2", "3", "4", "5", "6", "7", "8", "9">>

IsDigit(c) == \E d \in 1..10 : Digits[d] = c

DigitValue(c) == (CHOOSE d \in 1..10 : Digits[d] = c) - 1

RECURSIVE Number(_)
Number(ds) ==
    IF ds = <<>> THEN 0
    ELSE 10 * Number(SubSeq(ds, 1, Len(ds) - 1)) + DigitValue(ds[Len(ds)])

\* float(text): <<thousandths>>, or <<>> where float raises ValueError
Float(text) ==
    LET t == Strip(text)
        negative == t # <<>> /\ t[1] = "-"
        u == IF negative THEN Tail(t) ELSE t
        dots == {i \in 1..Len(u) : u[i] = "."}
        dot == IF dots = {} THEN Len(u) + 1 ELSE CHOOSE i \in dots : TRUE
        whole == SubSeq(u, 1, dot - 1)
        decimals == SubSeq(u, dot + 1, Len(u))
        numeral == /\ Cardinality(dots) <= 1
                   /\ whole \o decimals # <<>>
                   /\ \A i \in 1..Len(u) : i \in dots \/ IsDigit(u[i])
                   /\ Len(decimals) <= 3
        value == 1000 * Number(whole)
                 + Number(decimals \o SubSeq(<<"0", "0", "0">>, 1, 3 - Len(decimals)))
    IN  IF numeral THEN <<IF negative THEN -value ELSE value>> ELSE <<>>

Abs(x) == IF x < 0 THEN -x ELSE x

(***************************************************************************)
(* Question data of a service reply.  correct_answer is absent, a text or  *)
(* a list of texts.                                                        *)
(***************************************************************************)
Absent == [kind |-> "absent", text |-> <<>>, items |-> <<>>]

Text(s) == [kind |-> "text", text |-> s, items |-> <<>>]

List(items) == [kind |-> "list", text |-> <<>>, items |-> items]

Difficulties == {"easy", "medium", "hard"}

OptionLists ==
    { <<>>,
      << <<"A", ")", " ", "3">>, <<"B", ")", " ", "4">> >>,
      << <<"3">>, <<"4">> >>,
      << <<"c", "a", "t">>, <<"c", "a", "b">> >> }

DeclaredOptions ==
    { <<>>, <<"B">>, <<"a">>, <<"4">>, <<"c", "a", "b">>, <<"c", "a">>, <<"z">> }

Tokens ==
    { <<"t", "r", "u", "e">>, <<"T", "r", "u", "e">>, <<"Y", "E", "S">>, <<"t">>,
      <<"1">>, <<"f", "a", "l", "s", "e">>, <<"n", "o">>, <<>> }

Numerals ==
    { <<"4", ".", "0">>, <<"4">>, <<"3", ".", "9", "9", "5">>, <<"4", ".", "0", "0", "5">>,
      <<"4", ".", "0", "1">>, <<"4", ".", "0", "2">>, <<" ", "4", " ">>, <<"-", "4">>,
      <<"a", "b", "c">>, <<>> }

Words == { <<"P", "a", "r", "i", "s">>, <<" ", "p", "a", "r", "i", "s", " ">>, <<"a", "b", "c">> }

WordLists == { <<>>, << <<"P", "a", "r", "i", "s">> >>,
               << <<"a", "b", "c">>, <<"p", "a", "r", "i", "s">> >> }

QuestionData ==
    [type : {"multiple_choice"}, difficulty : {"medium", "extreme"}, options : OptionLists,
     correct_answer : {Absent} \cup {Text(s) : s \in DeclaredOptions}]
    \cup [type : {"true_false"}, difficulty : {"medium", "extreme"}, options : {<<>>},
          correct_answer : {Absent} \cup {Text(s) : s \in Tokens}]
    \cup [type : {"numeric", "equation"}, difficulty : {"medium", "extreme"}, options : {<<>>},
          correct_answer : {Absent, Text(<<"4", ".", "0">>), Text(<<"a", "b", "c">>)}]
    \cup [type : {"fill_blank"}, difficulty : {"medium", "extreme"}, options : {<<>>},
          correct_answer : {Absent} \cup {Text(s) : s \in Words} \cup {List(l) : l \in WordLists}]
    \cup [type : {"short_answer", "match_pairs"}, difficulty : {"medium", "extreme"},
          options : {<<>>}, correct_answer : {Absent, Text(<<"a", "b", "c">>)}]

\* the submitted answers
Answers == {<<"a">>, <<"B">>, <<"b">>} \cup Tokens \cup Numerals \cup Words

(***************************************************************************)
(* TutorOrchestrator._parse_question_from_llm                              *)
(***************************************************************************)
NoQuestion == [type |-> "none"]

Raised == [raised |-> TRUE, question |-> NoQuestion]

Parsed(question) == [raised |-> FALSE, question |-> question]

\* chr(97 + i) of the i-th option, counted from 1 here
OptionId(i) == << <<"a">>, <<"b">>, <<"c">>, <<"d">> >>[i]

\* "A) text" gives "text"
OptionText(opt) == IF Contains(opt, <<")">>) THEN Strip(AfterParen(opt)) ELSE opt

IsCorrectOption(opt, correct) ==
    \/ StartsWith(Lower(opt), FirstChar(Lower(correct)))
    \/ Lower(OptionText(opt)) = Lower(correct)
    \/ Contains(Lower(opt), Lower(correct))

\* the loop over the options, from option i on: correct_id is assigned at
\* every option that matches
RECURSIVE CorrectOptionId(_, _, _, _)
CorrectOptionId(options, correct, i, correct_id) ==
    IF i > Len(options) THEN correct_id
    ELSE CorrectOptionId(options, correct, i + 1,
                         IF IsCorrectOption(options[i], correct)
                         THEN OptionId(i) ELSE correct_id)

\* the truthy tokens of the normalizer
NormalizerTruthy == { <<"t", "r", "u", "e">>, <<"y", "e", "s">>, <<"t">> }

\* the tolerance of a numeric or equation question, in thousandths
DEFAULT_TOLERANCE == 10

\* q_data.get("correct_answer", default) as a text
DeclaredText(q_data, default) ==
    IF q_data.correct_answer.kind = "absent" THEN default ELSE q_data.correct_answer.text

parse_question_from_llm(q_data) ==
    LET declared == q_data.correct_answer
    IN  IF q_data.difficulty \notin Difficulties
        THEN Raised
        ELSE IF q_data.type = "multiple_choice"
        THEN IF declared.kind = "list"
             THEN Raised
             ELSE LET correct == DeclaredText(q_data, <<>>)
                  IN  Parsed([type |-> "multiple_choice",
                              options |->
                                  [i \in 1..Len(q_data.options) |->
                                      [id |-> OptionId(i),
                                       text |-> OptionText(q_data.options[i]),
                                       is_correct |-> IsCorrectOption(q_data.options[i], correct)]],
                              correct_option_id |->
                                  CorrectOptionId(q_data.options, correct, 1, <<"a">>)])
        ELSE IF q_data.type = "true_false"
        THEN IF declared.kind = "list"
             THEN Raised
             ELSE Parsed([type |-> "true_false",
                          correct_answer |->
                              Lower(DeclaredText(q_data, <<"t", "r", "u", "e">>))
                                  \in NormalizerTruthy])
        ELSE IF q_data.type \in {"numeric", "equation"}
        THEN LET parsed == IF declared.kind = "list" THEN <<>>
                           ELSE Float(DeclaredText(q_data, <<"0">>))
             IN  Parsed([type |-> q_data.type,
                         correct_answer |-> IF parsed = <<>> THEN 0 ELSE parsed[1],
                         tolerance |-> DEFAULT_TOLERANCE])
        ELSE IF q_data.type = "fill_blank"
        THEN Parsed([type |-> "fill_blank",
                     correct_answers |-> IF declared.kind = "list"
                                         THEN declared.items
                                         ELSE <<DeclaredText(q_data, <<>>)>>])
        ELSE IF declared.kind = "list"
        THEN Raised
        ELSE Parsed([type |-> "short_answer",
                     sample_answer |-> DeclaredText(q_data, <<>>)])

(***************************************************************************)
(* TutorOrchestrator._check_answer: is_correct and partial_credit (a       *)
(* fraction), or raised.                                                   *)
(***************************************************************************)
FullCredit == <<1, 1>>

HalfCredit == <<1, 2>>

NoCredit == <<0, 1>>

Evaluated(is_correct, partial_credit) ==
    [raised |-> FALSE, is_correct |-> is_correct, partial_credit |-> partial_credit]

Verdict(is_correct) == Evaluated(is_correct, IF is_correct THEN FullCredit ELSE NoCredit)

CheckRaised == [raised |-> TRUE, is_correct |-> FALSE, partial_credit |-> NoCredit]

\* the truthy tokens of the evaluator
EvaluatorTruthy == { <<"t", "r", "u", "e">>, <<"y", "e", "s">>, <<"t">>, <<"1">> }

\* the comparison with the tolerance, strict
WithinTolerance_Strict(student_val, correct_answer, tolerance) ==
    Abs(student_val - correct_answer) < tolerance

WithinTolerance(student_val, correct_answer, tolerance) ==
    Abs(student_val - correct_answer) <= tolerance

check_answer(question, answer) ==
    CASE question.type = "multiple_choice" ->
            Verdict(Lower(answer) = Lower(question.correct_option_id))
      [] question.type = "true_false" ->
            Verdict((Lower(answer) \in EvaluatorTruthy) = question.correct_answer)
      [] question.type \in {"numeric", "equation"} ->
            IF Float(answer) = <<>>
            THEN Evaluated(FALSE, NoCredit)
            ELSE Verdict(WithinTolerance(Float(answer)[1], question.correct_answer,
                                         question.tolerance))
      [] question.type = "fill_blank" ->
            IF \E i \in 1..Len(question.correct_answers) :
                   StripLower(answer) = StripLower(question.correct_answers[i])
            THEN Evaluated(TRUE, FullCredit)
            ELSE IF question.correct_answers = <<>>
            THEN CheckRaised
            ELSE Evaluated(FALSE, NoCredit)
      [] OTHER -> Evaluated(TRUE, HalfCredit)

\* the questions with a deterministic evaluation
ObjectiveQuestions ==
    {parse_question_from_llm(q_data).question :
        q_data \in {q \in QuestionData : /\ q.type \notin {"short_answer", "match_pairs"}
                                         /\ ~parse_question_from_llm(q).raised}}

\* no question parsed yet; then the question parsed; then the answer checked
NoGrading ==
    [q_data |-> <<>>, parsed |-> Raised, answer |-> <<>>, result |-> <<>>]

(***************************************************************************)
(* The sessions directory.  A file is a sequence of chunks: json.dump      *)
(* hands the text of a record to the file in consecutive writes, and a     *)
(* record whose text is longer than one write buffer reaches the file in   *)
(* more than one of them.  A record is the sequence of its field groups,   *)
(* one per chunk; the records saved here have texts of one layout (they    *)
(* differ in the digits of their counters), so that chunk i of any of them *)
(* holds field group i.                                                    *)
(***************************************************************************)
\* the callers of save_session for the one session id: each saves the
\* record named after it
Savers == {"s1", "s2"}

\* the record s saves, and the one saved before any of them
RecordOf(s) == [groups |-> [i \in 1..MaxChunks |-> s]]

PreviousRecord == [groups |-> [i \in 1..MaxChunks |-> "r0"]]

\* self._serialize_session and json.dump: the text, chunk by chunk
Serialize(record) == record.groups

NoFile == "none"

\* bytes no write has filled (a write beyond the end of a file)
Hole == "hole"

\* f.write at `offset` chunks from the start of the file
WriteAt(content, offset, chunks) ==
    LET end == offset + Len(chunks)
        len == Max(Len(content), end)
    IN  [i \in 1..len |->
            IF i > offset /\ i <= end THEN chunks[i - offset]
            ELSE IF i <= Len(content) THEN content[i]
            ELSE Hole]

\* json.load and self._deserialize_session of a file's content: a text that
\* is cut short or holds unwritten bytes does not parse
Deserialize(content) ==
    IF Len(content) = MaxChunks /\ \A i \in 1..MaxChunks : content[i] # Hole
    THEN [groups |-> content]
    ELSE None

\* SessionManager.load_session, from the directory
ReadSession ==
    IF disk.file = NoFile THEN None ELSE Deserialize(disk.inodes[disk.file])

Inodes == {"i0"} \cup Savers

\* pc: idle, writing (the temporary file is open, `offset` chunks written),
\* written (the with-block is left), saved (True returned), failed (False
\* returned), crashed (the process died inside save_session)
NotSaving == [pc |-> "idle", fd |-> NoFile, offset |-> 0]

(***************************************************************************)
(* The conversation buffer of a record.  A message is <<arrival number,    *)
(* role>>: the arrival number stands for its content and timestamp.        *)
(***************************************************************************)
Roles == {"user", "assistant"}

ConversationContext == [total_messages |-> 0, recent_messages |-> <<>>]

\* the last n elements of a list: s[-n:]
Last(s, n) == IF Len(s) <= n THEN s ELSE SubSeq(s, Len(s) - n + 1, Len(s))

\* the buffer trimmed before the append
add_message_TrimFirst(conv, message) ==
    [total_messages |-> conv.total_messages + 1,
     recent_messages |-> Append(Last(conv.recent_messages, RECENT_MESSAGES), message)]

\* SessionManager.add_message
add_message(conv, message) ==
    [total_messages |-> conv.total_messages + 1,
     recent_messages |-> Last(Append(conv.recent_messages, message), RECENT_MESSAGES)]

Init ==
    /\ session = NewSession
    /\ stored = TRUE
    /\ requests = [c \in Clients |-> NoRequest]
    /\ disk = [file |-> "i0", temp |-> NoFile,
               inodes |-> [i \in Inodes |-> IF i = "i0" THEN Serialize(PreviousRecord) ELSE <<>>]]
    /\ saving = [s \in Savers |-> NotSaving]
    /\ conversation = [context |-> ConversationContext, sent |-> <<>>]
    /\ grading = NoGrading

\* replies standing for a service call the handler does not make
NoTeachingReply == [success |-> FALSE, practice_question |-> "absent"]

NoAnswerEvalReply ==
    [success |-> FALSE, is_correct |-> FALSE, next_action |-> "next_question",
     xp_earned |-> XpAbsent, next_question |-> "absent"]

NoDiagnosticEvalReply ==
    [success |-> FALSE, is_correct |-> FALSE, diagnostic_complete |-> FALSE,
     next_question |-> "absent", score |-> ScoreAbsent]

NoStartDiagnosticReply == [success |-> FALSE, question |-> "absent"]

NoStudyPlanReply == [success |-> FALSE, concepts |-> 0, malformed |-> FALSE]

NoWrapupReply == [success |-> FALSE, malformed |-> FALSE]

\* POST /chat/start-diagnostic
StartDiagnostic ==
    \E r \in StartDiagnosticReplies : Store(start_diagnostic(load_session, r))

\* POST /chat/submit-diagnostic-answer
SubmitDiagnosticAnswer ==
    \E r \in DiagnosticEvalReplies : Store(submit_diagnostic_answer(load_session, r))

\* POST /chat/generate-plan
GenerateStudyPlan ==
    \E r \in StudyPlanReplies : Store(generate_study_plan(load_session, r))

\* POST /chat/start-teaching
StartTeachingConcept ==
    \/ /\ session.concepts = <<>> \/ HasCurrentConcept(session)
       /\ \E r \in TeachingReplies :
             Store(start_teaching_concept(load_session, r, NoWrapupReply))
    \/ /\ session.concepts # <<>> /\ ~HasCurrentConcept(session)
       /\ \E w \in WrapupReplies :
             Store(start_teaching_concept(load_session, NoTeachingReply, w))

\* POST /chat/submit-answer
SubmitPracticeAnswer ==
    \/ /\ HasCurrentConcept(session)
       /\ \E r \in AnswerEvalReplies :
             Store(submit_practice_answer(load_session, r, NoWrapupReply))
    \/ /\ ~HasCurrentConcept(session)
       /\ \E w \in WrapupReplies :
             Store(submit_practice_answer(load_session, NoAnswerEvalReply, w))

\* POST /chat/get-hint
GetHint == Store(get_hint(load_session))

\* POST /chat/skip-concept
SkipConcept ==
    \E r \in TeachingReplies, w \in WrapupReplies :
        Store(skip_concept(load_session, r, w))

\* POST /chat/end-session
EndSession ==
    \E w \in WrapupReplies : Store(wrap_up_session(load_session, w))

\* POST /chat/message
SendMessage ==
    \/ /\ session.current_phase = "diagnostic"
       /\ \E d \in DiagnosticEvalReplies :
             Store(send_message(load_session, d, NoAnswerEvalReply, NoWrapupReply))
    \/ /\ session.current_phase = "teaching"
       /\ HasCurrentConcept(session)
       /\ \E a \in AnswerEvalReplies :
             Store(send_message(load_session, NoDiagnosticEvalReply, a, NoWrapupReply))
    \/ /\ session.current_phase = "teaching"
       /\ ~HasCurrentConcept(session)
       /\ \E w \in WrapupReplies :
             Store(send_message(load_session, NoDiagnosticEvalReply, NoAnswerEvalReply, w))
    \/ /\ session.current_phase \notin {"diagnostic", "teaching"}
       /\ Store(send_message(load_session, NoDiagnosticEvalReply, NoAnswerEvalReply,
                             NoWrapupReply))

\* POST /chat/next
NextStep ==
    \/ /\ session.current_phase \in {"topic_selection", "diagnostic"}
       /\ \E q \in StartDiagnosticReplies, p \in StudyPlanReplies :
             Store(next_step(load_session, q, p, NoTeachingReply, NoWrapupReply))
    \/ /\ session.current_phase = "plan_generation"
       /\ \E p \in StudyPlanReplies :
             Store(next_step(load_session, NoStartDiagnosticReply, p, NoTeachingReply,
                             NoWrapupReply))
    \/ /\ session.current_phase \notin
             {"topic_selection", "diagnostic", "plan_generation"}
       /\ \E t \in TeachingReplies, w \in WrapupReplies :
             Store(next_step(load_session, NoStartDiagnosticReply, NoStudyPlanReply, t, w))

\* DELETE /session/{session_id}
DeleteSession ==
    /\ stored
    /\ stored' = FALSE
    /\ UNCHANGED <<session, requests, disk, saving, conversation, grading>>

\* a caller of SessionManager: load_session, update_stats, save_session
UpdateStats ==
    \E a \in 0..1, c \in 0..1, h \in 0..1, x \in {0, DEFAULT_XP_CORRECT} :
        /\ stored
        /\ session' = update_stats(load_session, a, c, h, x)
        /\ UNCHANGED <<stored, requests, disk, saving, conversation, grading>>

(***************************************************************************)
(* Spec: every request of the request surface, in any order.               *)
(***************************************************************************)
Bounded(sess) ==
    /\ sess.diagnostic_questions <= MaxQuestions
    /\ sess.questions_attempted <= MaxAnswers
    /\ sess.hints_used <= MaxHints
    /\ sess.concepts_taught <= MaxTaught

Next ==
    \/ StartDiagnostic /\ Bounded(session')
    \/ SubmitDiagnosticAnswer /\ Bounded(session')
    \/ GenerateStudyPlan /\ Bounded(session')
    \/ StartTeachingConcept /\ Bounded(session')
    \/ SubmitPracticeAnswer /\ Bounded(session')
    \/ GetHint /\ Bounded(session')
    \/ SkipConcept /\ Bounded(session')
    \/ EndSession /\ Bounded(session')
    \/ SendMessage /\ Bounded(session')
    \/ NextStep /\ Bounded(session')
    \/ DeleteSession

Spec == Init /\ [][Next]_vars

(***************************************************************************)
(* SpecDiagnostic: the requests that drive the diagnostic loop.            *)
(***************************************************************************)
DiagnosticBounded(sess) ==
    /\ sess.diagnostic_questions <= MaxDiagnosticQuestions
    /\ sess.questions_attempted <= MaxDiagnosticAnswers
    /\ sess.concepts_taught <= MaxDiagnosticTaught

NextDiagnostic ==
    \/ StartDiagnostic /\ DiagnosticBounded(session')
    \/ SubmitDiagnosticAnswer /\ DiagnosticBounded(session')
    \/ NextStep /\ DiagnosticBounded(session')

SpecDiagnostic == Init /\ [][NextDiagnostic]_vars

(***************************************************************************)
(* SpecTeaching: the requests that drive the study plan.                   *)
(***************************************************************************)
TeachingBounded(sess) ==
    /\ sess.questions_attempted <= MaxPracticeAnswers
    /\ sess.hints_used <= MaxPracticeHints
    /\ sess.concepts_taught <= MaxPracticeTaught

NextTeaching ==
    \/ GenerateStudyPlan /\ TeachingBounded(session')
    \/ StartTeachingConcept /\ TeachingBounded(session')
    \/ SubmitPracticeAnswer /\ TeachingBounded(session')
    \/ GetHint /\ TeachingBounded(session')
    \/ SkipConcept /\ TeachingBounded(session')
    \/ EndSession /\ TeachingBounded(session')

SpecTeaching == Init /\ [][NextTeaching]_vars

(***************************************************************************)
(* SpecStats: the operations that update the session statistics.           *)
(***************************************************************************)
StatsBounded(sess) ==
    /\ sess.questions_attempted <= MaxStatsAnswers
    /\ sess.questions_correct <= MaxStatsAnswers
    /\ sess.hints_used <= MaxStatsHints
    /\ sess.xp_earned <= MaxStatsXp

NextStats ==
    \/ SubmitDiagnosticAnswer /\ StatsBounded(session')
    \/ GenerateStudyPlan /\ StatsBounded(session')
    \/ SubmitPracticeAnswer /\ StatsBounded(session')
    \/ UpdateStats /\ StatsBounded(session')

SpecStats == Init /\ [][NextStats]_vars

(***************************************************************************)
(* SpecConcurrent: two clients post answers to one session at the same     *)
(* time.  The handlers are coroutines of one event loop: another handler   *)
(* can start only where the running one suspends.  submit_practice_answer  *)
(* has one candidate, the service call, and makes it with the blocking     *)
(* generate_sync, without await.                                           *)
(***************************************************************************)
\* the service call as an awaited coroutine, which suspends the handler
ServiceCallBlocks_Awaited == FALSE

\* result = self.llm.generate_sync(prompt): the event loop is held meanwhile
ServiceCallBlocks == TRUE

EventLoopFree ==
    ServiceCallBlocks => \A c \in Clients : requests[c].pc # "running"

\* POST /chat/submit-answer reaches the server
ReceiveAnswer(c) ==
    /\ requests[c].pc = "idle"
    /\ requests[c].evaluated < MaxClientAnswers
    /\ requests' = [requests EXCEPT ![c].pc = "waiting"]
    /\ UNCHANGED <<session, stored, disk, saving, conversation, grading>>

\* the event loop starts the handler: submit_practice_answer up to the
\* service call
BeginAnswer(c) ==
    /\ requests[c].pc = "waiting"
    /\ EventLoopFree
    /\ requests' = [requests EXCEPT ![c].pc = "running",
                                    ![c].loaded = <<load_session>>]
    /\ UNCHANGED <<session, stored, disk, saving, conversation, grading>>

\* submit_practice_answer from the service's reply to the response
FinishAnswer(c) ==
    /\ requests[c].pc = "running"
    /\ \E r \in AnswerEvalReplies, w \in WrapupReplies :
          LET loaded == requests[c].loaded[1]
              o == submit_practice_answer(loaded, r, w)
              evaluated == o.response.success /\ HasCurrentConcept(loaded)
          IN  /\ Save(o)
              /\ requests' = [requests EXCEPT
                                 ![c].pc = "idle",
                                 ![c].loaded = <<>>,
                                 ![c].evaluated = @ + (IF evaluated THEN 1 ELSE 0)]
              /\ UNCHANGED <<disk, saving, conversation, grading>>

\* the study plan is generated once, by a request of its own
NextConcurrent ==
    \/ GenerateStudyPlan /\ session.concepts = <<>> /\ EventLoopFree
    \/ \E c \in Clients : ReceiveAnswer(c)
    \/ \E c \in Clients : BeginAnswer(c)
    \/ \E c \in Clients : FinishAnswer(c)

SpecConcurrent == Init /\ [][NextConcurrent]_vars

(***************************************************************************)
(* SpecSave: callers of save_session for one session id, each between its  *)
(* open and its rename, and a process that dies inside save_session.  The  *)
(* temporary file has one name per session id                              *)
(* (file_path.with_suffix('.tmp')), so every caller opens the same path.   *)
(***************************************************************************)
\* open(temp_path, 'w'): the file at the path is truncated, or created
OpenTemp(s) ==
    /\ saving[s].pc = "idle"
    /\ LET inode == IF disk.temp = NoFile THEN s ELSE disk.temp
       IN  /\ disk' = [disk EXCEPT !.temp = inode, !.inodes[inode] = <<>>]
           /\ saving' = [saving EXCEPT ![s] = [pc |-> "writing", fd |-> inode, offset |-> 0]]
    /\ UNCHANGED <<session, stored, requests, conversation, grading>>

\* json.dump(..., f): the next write of the text, at the offset of this
\* caller's file object; the with-block is left after the last one
WriteTemp(s) ==
    /\ saving[s].pc = "writing"
    /\ LET k == saving[s].offset
           chunk == <<Serialize(RecordOf(s))[k + 1]>>
       IN  /\ disk' = [disk EXCEPT !.inodes[saving[s].fd] = WriteAt(@, k, chunk)]
           /\ saving' = [saving EXCEPT
                            ![s].offset = k + 1,
                            ![s].pc = IF k + 1 = MaxChunks THEN "written" ELSE "writing"]
    /\ UNCHANGED <<session, stored, requests, conversation, grading>>

\* shutil.move(temp_path, file_path): the rename, which fails when the
\* temporary path is gone (save_session then returns False)
MoveTemp(s) ==
    /\ saving[s].pc = "written"
    /\ IF disk.temp = NoFile
       THEN /\ saving' = [saving EXCEPT ![s].pc = "failed"]
            /\ UNCHANGED disk
       ELSE /\ saving' = [saving EXCEPT ![s].pc = "saved"]
            /\ disk' = [disk EXCEPT !.file = disk.temp, !.temp = NoFile]
    /\ UNCHANGED <<session, stored, requests, conversation, grading>>

\* the process of the caller dies between two steps of save_session
Crash(s) ==
    /\ saving[s].pc \in {"writing", "written"}
    /\ saving' = [saving EXCEPT ![s].pc = "crashed"]
    /\ UNCHANGED <<session, stored, requests, conversation, disk, grading>>

NextSave ==
    \/ \E s \in Savers : OpenTemp(s)
    \/ \E s \in Savers : WriteTemp(s)
    \/ \E s \in Savers : MoveTemp(s)
    \/ \E s \in Savers : Crash(s)

SpecSave == Init /\ [][NextSave]_vars

(***************************************************************************)
(* SpecConversation: add_message calls on one record.                      *)
(***************************************************************************)
\* the caller passes the next message of the exchange
AddMessage ==
    /\ Len(conversation.sent) < MaxMessages
    /\ \E role \in Roles :
          LET message == <<Len(conversation.sent) + 1, role>>
          IN  conversation' =
                  [context |-> add_message(conversation.context, message),
                   sent |-> Append(conversation.sent, message)]
    /\ UNCHANGED <<session, stored, requests, disk, saving, grading>>

NextConversation == AddMessage

SpecConversation == Init /\ [][NextConversation]_vars

(***************************************************************************)
(* SpecEvaluator: a question of a service reply is parsed, and answers to  *)
(* it are checked.                                                         *)
(***************************************************************************)
ParseQuestion ==
    /\ \E q_data \in QuestionData :
          grading' = [q_data |-> q_data, parsed |-> parse_question_from_llm(q_data),
                      answer |-> <<>>, result |-> <<>>]
    /\ UNCHANGED <<session, stored, requests, disk, saving, conversation>>

CheckAnswer ==
    /\ ~grading.parsed.raised
    /\ \E answer \in Answers :
          grading' = [grading EXCEPT
                         !.answer = <<answer>>,
                         !.result = <<check_answer(grading.parsed.question, answer)>>]
    /\ UNCHANGED <<session, stored, requests, disk, saving, conversation>>

NextEvaluator == ParseQuestion \/ CheckAnswer

SpecEvaluator == Init /\ [][NextEvaluator]_vars

TypeOK ==
    /\ stored \in BOOLEAN
    /\ \A c \in Clients : requests[c].pc \in {"idle", "waiting", "running"}
    /\ session.current_phase \in CurrentPhase
    /\ session.status \in SessionStatus
    /\ session.diagnostic_status \in PhaseStatus
    /\ session.current_concept_index \in Nat
    /\ \A i \in 1..Len(session.concepts) :
          session.concepts[i].status \in ConceptStatus

(***************************************************************************)
(* Steps of the stored record, as the properties below name them.          *)
(***************************************************************************)
\* the store went from `session` to `session'` by wrap_up_session
WrapUpStep ==
    \E w \in WrapupReplies :
        /\ ~wrap_up_session(session, w).raised
        /\ session' = wrap_up_session(session, w).session

\* the store went from `session` to `session'` by submit_practice_answer
\* evaluating an answer on the current concept with the service's reply r
PracticeStep(r) ==
    /\ HasCurrentConcept(session)
    /\ r.success
    /\ ~submit_practice_answer(session, r, NoWrapupReply).raised
    /\ session' = submit_practice_answer(session, r, NoWrapupReply).session

\* the store went from `session` to `session'` by a successful generate_study_plan
PlanStep ==
    \E p \in StudyPlanReplies :
        /\ generate_study_plan(session, p).response.success
        /\ session' = generate_study_plan(session, p).session

\* the position of the current concept in concepts (1-based)
Cur == session.current_concept_index + 1

(***************************************************************************)
(* Section 4.3 of the specification: the transition table.                 *)
(***************************************************************************)
TransitionTable ==
    {<<"topic_selection", "diagnostic">>,
     <<"diagnostic", "plan_generation">>,
     <<"plan_generation", "teaching">>,
     <<"teaching", "reteach">>,
     <<"reteach", "teaching">>,
     <<"reteach", "assessment">>,
     <<"teaching", "wrapup">>}

\* C1: across any sequence of requests, every change of the stored
\* current_phase is an edge of the transition table, or an end-session
\* request's move to wrapup.
C1_PhaseChangesFollowTable ==
    [][session'.current_phase # session.current_phase
          => \/ <<session.current_phase, session'.current_phase>> \in TransitionTable
             \/ session'.current_phase = "wrapup" /\ WrapUpStep]_vars

\* C2: wrapup is terminal: once the stored current_phase is wrapup no request
\* changes it to another phase.
C2_WrapupTerminal ==
    [][session.current_phase = "wrapup" => session'.current_phase = "wrapup"]_vars

\* C3: in every reachable state at most MAX_DIAGNOSTIC_QUESTIONS diagnostic
\* questions are recorded, whatever the service replies and whatever sequence
\* of start_diagnostic, submit_diagnostic_answer and /next requests is issued.
C3_QuestionBudget == session.diagnostic_questions <= MAX_DIAGNOSTIC_QUESTIONS

\* C4: when submit_practice_answer evaluates an answer as correct and the
\* current concept's mastery_score is then >= 0.75, the concept becomes
\* mastered, concepts_mastered rises by 1, the bonus of 20 XP is added on top
\* of the per-answer XP, and current_concept_index rises by exactly 1.
C4_MasteryAdvances ==
    [][(/\ HasCurrentConcept(session)
        /\ session'.questions_correct = session.questions_correct + 1
        /\ Len(session'.concepts) = Len(session.concepts)
        /\ session'.concepts[Cur].mastery_score >= MASTERY_QUARTERS)
       => \A r \in AnswerEvalReplies :
             (r.is_correct /\ PracticeStep(r))
             => /\ session'.concepts[Cur].status = "mastered"
                /\ session'.concepts_mastered = session.concepts_mastered + 1
                /\ session'.xp_earned = session.xp_earned + AnswerXp(r) + 20
                /\ session'.current_concept_index
                      = session.current_concept_index + 1]_vars

\* a concept mastered on reaching the threshold, the index just past it
C4_Witness ==
    \E i \in 1..Len(session.concepts) :
        /\ session.concepts[i].status = "mastered"
        /\ session.concepts[i].mastery_score = MASTERY_QUARTERS
        /\ session.concepts[i].attempts = 3
        /\ session.current_concept_index = i
        /\ session.concepts_mastered = 1
        /\ session.xp_earned = 3 * DEFAULT_XP_CORRECT + MASTERY_BONUS_XP

\* C5: submit_practice_answer marks a concept mastered and advances the index
\* only if the answer was correct and the mastery_score is >= 0.75; after an
\* incorrect answer, or a correct one below the threshold, the index and the
\* concept's non-mastered status are unchanged.
C5_MasteryOnlyAtThreshold ==
    [][\A r \in AnswerEvalReplies :
          (/\ session'.questions_attempted = session.questions_attempted + 1
           /\ PracticeStep(r)
           /\ ~(r.is_correct
                /\ session'.concepts[Cur].mastery_score >= MASTERY_QUARTERS))
          => /\ session'.current_concept_index = session.current_concept_index
             /\ session'.concepts[Cur].status = session.concepts[Cur].status
             /\ session'.concepts[Cur].status # "mastered"]_vars

\* C6: the outcome of submit_practice_answer does not depend on the service's
\* next_action: from the same stored state, two replies with the same
\* is_correct that differ only in next_action end with the same current_phase,
\* the same concept status and the same current_concept_index.
C6_NextActionIgnored ==
    \A r \in AnswerEvalReplies, a \in NextAction :
        (HasCurrentConcept(session) /\ r.success)
        => LET o1 == submit_practice_answer(session, r, NoWrapupReply).session
               o2 == submit_practice_answer(
                         session, [r EXCEPT !.next_action = a], NoWrapupReply).session
           IN  /\ o1.current_phase = o2.current_phase
               /\ o1.concepts[Cur].status = o2.concepts[Cur].status
               /\ o1.current_concept_index = o2.current_concept_index

\* C7: when submit_practice_answer evaluates an answer as incorrect and the
\* concept's attempts (this answer included) are >= 3, the stored phase becomes
\* reteach for the same concept.
C7_ReteachAfterThreeWrong ==
    [][\A r \in AnswerEvalReplies :
          (/\ ~r.is_correct
           /\ session'.questions_attempted = session.questions_attempted + 1
           /\ PracticeStep(r)
           /\ session.concepts[Cur].attempts + 1 >= 3)
          => /\ session'.current_phase = "reteach"
             /\ session'.current_concept_index = session.current_concept_index]_vars

\* C8: in phase teaching, correct answers raise mastery_score by 0.25 each from
\* 0 and it is the third, not the first or second, that marks the concept
\* mastered; then the phase is wrapup with the index at the number of concepts
\* when the concept was the last, and stays teaching on the next concept
\* otherwise.
C8_ThirdCorrectAnswerMasters ==
    [][\A r \in AnswerEvalReplies :
          (/\ r.is_correct
           /\ session.current_phase = "teaching"
           /\ session'.questions_attempted = session.questions_attempted + 1
           /\ PracticeStep(r))
          => LET before == session.concepts[Cur].mastery_score
                 last == Cur = Len(session.concepts)
             IN  /\ session'.concepts[Cur].mastery_score = before + 1
                 /\ before + 1 < MASTERY_QUARTERS
                       => /\ session'.concepts[Cur].status # "mastered"
                          /\ session'.current_concept_index
                                = session.current_concept_index
                 /\ before + 1 = MASTERY_QUARTERS
                       => /\ session'.concepts[Cur].status = "mastered"
                          /\ session'.current_concept_index = Cur
                          /\ session'.current_phase
                                = IF last THEN "wrapup" ELSE "teaching"]_vars

\* C9: a concept's attempts count the answers submitted for it: an evaluated
\* submit_practice_answer raises it by exactly 1 and no other request on the
\* same study plan lowers or resets it.
C9_AttemptsCountAnswers ==
    [][/\ \A r \in AnswerEvalReplies :
             (/\ session'.questions_attempted = session.questions_attempted + 1
              /\ PracticeStep(r))
             => session'.concepts[Cur].attempts = session.concepts[Cur].attempts + 1
       /\ (Len(session'.concepts) = Len(session.concepts) /\ ~PlanStep)
             => \A i \in 1..Len(session.concepts) :
                   session'.concepts[i].attempts >= session.concepts[i].attempts]_vars

\* C10: the stored current_concept_index never decreases, across any sequence
\* of requests.
C10_IndexNeverDecreases ==
    [][session'.current_concept_index >= session.current_concept_index]_vars

\* C11: in every reachable state 0 <= current_concept_index <= number of
\* concepts of the study plan, for any interleaving of submit_practice_answer,
\* skip-concept, start_teaching_concept and generate_study_plan.
C11_IndexWithinPlan ==
    /\ 0 <= session.current_concept_index
    /\ session.current_concept_index <= Len(session.concepts)

\* the index has walked past the last concept of a two-concept plan: one
\* concept skipped, the other answered
C11_Witness ==
    /\ Len(session.concepts) = 2
    /\ session.current_concept_index = 2
    /\ \E i \in 1..2 : session.concepts[i].status = "skipped"
    /\ \E i \in 1..2 : session.concepts[i].attempts > 0

\* C12: once the diagnostic assessment has been set, no later request replaces
\* or modifies it.
C12_AssessmentWrittenOnce ==
    [][session.assessment # NoAssessment
          => session'.assessment = session.assessment]_vars

\* the diagnostic has ended: the assessment is set and the phase moved on
DiagnosticEnded(sess) ==
    sess.assessment # NoAssessment /\ sess.current_phase = "plan_generation"

\* the records a store in S can hold after n successfully evaluated
\* submit_diagnostic_answer requests none of which ended the diagnostic
RECURSIVE StillOpenAfter(_, _)
StillOpenAfter(S, n) ==
    IF n = 0
    THEN S
    ELSE StillOpenAfter(
             {o.session : o \in {x \in {submit_diagnostic_answer(s, r) :
                                           s \in S, r \in DiagnosticEvalReplies} :
                                    x.response.success /\ ~DiagnosticEnded(x.session)}},
             n - 1)

\* C13: after start_diagnostic the diagnostic ends (assessment set, phase
\* plan_generation) no later than the MAX_DIAGNOSTIC_QUESTIONS-th successfully
\* evaluated submit_diagnostic_answer, whatever the service replies.
C13_DiagnosticEndsWithinBudget ==
    (/\ session.current_phase = "diagnostic"
     /\ session.diagnostic_status = "in_progress"
     /\ session.diagnostic_questions >= 1)
    => StillOpenAfter({session}, MAX_DIAGNOSTIC_QUESTIONS) = {}

\* the store went from `session` to `session'` by submit_diagnostic_answer
\* completing the diagnostic on the service's reply r
CompletionStep(r) ==
    /\ r.success
    /\ r.diagnostic_complete \/ session.diagnostic_questions >= MAX_DIAGNOSTIC_QUESTIONS
    /\ session' = submit_diagnostic_answer(session, r).session

\* C14: when the diagnostic completes, the assessment's score equals the
\* session's questions_correct / questions_attempted at that moment, and is the
\* same for any score value the service proposes in its final_assessment.
C14_ScoreIsAccuracy ==
    [][session'.questions_attempted = session.questions_attempted + 1
       => \A r \in DiagnosticEvalReplies :
             CompletionStep(r)
             => /\ session'.assessment
                      = <<Quotient(session'.questions_correct,
                                   session'.questions_attempted)>>
                /\ \A s \in ScoreReplies :
                      submit_diagnostic_answer(
                          session, [r EXCEPT !.score = s]).session.assessment
                         = session'.assessment]_vars

\* a diagnostic completed after two answers, one of them correct: score 1/2
C14_Witness ==
    /\ session.diagnostic_status = "completed"
    /\ session.questions_attempted = 2
    /\ session.questions_correct = 1
    /\ session.assessment = <<<<1, 2>>>>

\* C15: in every stored session state accuracy_rate equals
\* questions_correct / questions_attempted when questions_attempted > 0 and
\* equals 0 when questions_attempted = 0, after any sequence of
\* submit_diagnostic_answer, submit_practice_answer and update_stats.
C15_AccuracyIsRatio ==
    session.accuracy_rate =
        IF session.questions_attempted > 0
        THEN Quotient(session.questions_correct, session.questions_attempted)
        ELSE <<0, 1>>

\* two answers counted, one of them correct, on a session that went through a
\* practice answer: accuracy 1/2
C15_Witness ==
    /\ session.questions_attempted = 2
    /\ session.questions_correct = 1
    /\ session.accuracy_rate = <<1, 2>>
    /\ \E i \in 1..Len(session.concepts) : session.concepts[i].attempts = 1

\* the replies of R that stand for a failed service call
Failed(R) == {r \in R : ~r.success}

\* C16: for start_diagnostic, submit_diagnostic_answer, generate_study_plan,
\* start_teaching_concept and submit_practice_answer, a failed service call
\* gives a response with success = false and leaves the stored record
\* identical to the one stored before the request.
C16_FailedCallChangesNothing ==
    \A o \in {start_diagnostic(session, q) : q \in Failed(StartDiagnosticReplies)}
             \cup {submit_diagnostic_answer(session, d) :
                      d \in Failed(DiagnosticEvalReplies)}
             \cup {generate_study_plan(session, p) : p \in Failed(StudyPlanReplies)}
             \cup {start_teaching_concept(session, t, w) :
                      t \in Failed(TeachingReplies), w \in Failed(WrapupReplies)}
             \cup {submit_practice_answer(session, a, w) :
                      a \in Failed(AnswerEvalReplies), w \in Failed(WrapupReplies)} :
        ~o.response.success /\ o.session = session

\* C17: for every request that calls the reasoning service, end-session,
\* skip-concept and the free-form message route included, a failed service
\* call leaves the stored current_phase, session status and
\* current_concept_index at their values before the request.
C17_FailedCallKeepsPhase ==
    \A o \in {wrap_up_session(session, w) : w \in Failed(WrapupReplies)}
             \cup {skip_concept(session, t, w) :
                      t \in Failed(TeachingReplies), w \in Failed(WrapupReplies)}
             \cup {send_message(session, d, a, w) :
                      d \in Failed(DiagnosticEvalReplies),
                      a \in Failed(AnswerEvalReplies), w \in Failed(WrapupReplies)}
             \cup {next_step(session, q, p, t, w) :
                      q \in Failed(StartDiagnosticReplies),
                      p \in Failed(StudyPlanReplies),
                      t \in Failed(TeachingReplies), w \in Failed(WrapupReplies)} :
        /\ o.session.current_phase = session.current_phase
        /\ o.session.status = session.status
        /\ o.session.current_concept_index = session.current_concept_index

\* C18: every orchestrator operation returns an APIResponse and never raises,
\* for every reply of the service, malformed payloads included.
C18_NeverRaises ==
    \A o \in {start_diagnostic(session, q) : q \in StartDiagnosticReplies}
             \cup {submit_diagnostic_answer(session, d) : d \in DiagnosticEvalReplies}
             \cup {generate_study_plan(session, p) : p \in StudyPlanReplies}
             \cup {start_teaching_concept(session, t, w) :
                      t \in TeachingReplies, w \in WrapupReplies}
             \cup {submit_practice_answer(session, a, w) :
                      a \in AnswerEvalReplies, w \in WrapupReplies}
             \cup {get_hint(session)}
             \cup {wrap_up_session(session, w) : w \in WrapupReplies} :
        ~o.raised

\* the outcomes of the orchestrator's operations on the record load_session
\* returns, over every reply of the service
OrchestratorOutcomes ==
    {start_diagnostic(load_session, q) : q \in StartDiagnosticReplies}
        \cup {submit_diagnostic_answer(load_session, d) : d \in DiagnosticEvalReplies}
        \cup {generate_study_plan(load_session, p) : p \in StudyPlanReplies}
        \cup {start_teaching_concept(load_session, t, w) :
                 t \in TeachingReplies, w \in WrapupReplies}
        \cup {submit_practice_answer(load_session, a, w) :
                 a \in AnswerEvalReplies, w \in WrapupReplies}
        \cup {get_hint(load_session)}
        \cup {wrap_up_session(load_session, w) : w \in WrapupReplies}

\* C19: every orchestrator operation invoked with a session id that has no
\* stored record returns success = false with error 'Session not found', calls
\* the reasoning service zero times and leaves the store without a record for
\* that id.
C19_UnknownSessionNotFound ==
    ~stored
    => \A o \in OrchestratorOutcomes :
          /\ ~o.response.success
          /\ o.response.error = "Session not found"
          /\ ~o.raised
          /\ o.llm_calls = 0
          /\ o.session = None

\* the record of a session that had a study plan has been deleted
C19_Witness ==
    /\ ~stored
    /\ load_session = None
    /\ session.concepts # <<>>

RECURSIVE SumAttempts(_)
SumAttempts(concepts) ==
    IF concepts = <<>>
    THEN 0
    ELSE Head(concepts).attempts + SumAttempts(Tail(concepts))

RECURSIVE SumEvaluated(_)
SumEvaluated(S) ==
    IF S = {}
    THEN 0
    ELSE LET c == CHOOSE x \in S : TRUE
         IN  requests[c].evaluated + SumEvaluated(S \ {c})

C21_SaveAtomicForReaders ==
    ReadSession \in {None, PreviousRecord} \cup {RecordOf(s) : s \in Savers}

\* a crash inside a single save leaves the record saved before
C21_CrashKeepsPrevious ==
    (\E s \in Savers : /\ saving[s].pc = "crashed"
                       /\ \A o \in Savers \ {s} : saving[o].pc = "idle")
        => ReadSession = PreviousRecord

\* C22: for an objective question, the correctness that
\* submit_practice_answer and submit_diagnostic_answer count into the stats
\* is the deterministic evaluator's result for (question, submitted answer),
\* whatever the evaluation reply of the reasoning service says
C22_ObjectiveAnswersEvaluatedDeterministically ==
    \A question \in ObjectiveQuestions, answer \in Answers :
        LET counted(o) == o.session.questions_correct - session.questions_correct = 1
        IN  /\ HasCurrentConcept(session) =>
                \A r \in AnswerEvalReplies, w \in WrapupReplies :
                    r.success =>
                        counted(submit_practice_answer(session, r, w))
                            = check_answer(question, answer).is_correct
            /\ session.diagnostic_questions > 0 =>
                \A r \in DiagnosticEvalReplies :
                    r.success =>
                        counted(submit_diagnostic_answer(session, r))
                            = check_answer(question, answer).is_correct

\* C23: generate_study_plan moves the phase to teaching only when the plan
\* it stores has at least one concept: with a plan of zero concepts the
\* stored phase does not become teaching
C23_TeachingNeedsAConcept ==
    [][\A p \in StudyPlanReplies :
          (/\ p.success
           /\ p.concepts = 0
           /\ session.current_phase # "teaching"
           /\ session' = generate_study_plan(session, p).session)
              => session'.current_phase # "teaching"]_vars

\* C24: an end-session request on an existing session, in any phase and
\* whatever the reasoning service answers to the wrap-up prompt, ends with
\* the stored record in phase wrapup with status completed, and returns
\* success with phase wrapup
C24_EndSessionAlwaysWrapsUp ==
    stored =>
        \A w \in WrapupReplies :
            LET o == wrap_up_session(load_session, w)
            IN  /\ ~o.raised
                /\ o.session.current_phase = "wrapup"
                /\ o.session.status = "completed"
                /\ o.response.success
                /\ o.response.current_phase = "wrapup"

\* C25: reteach is left on the next evaluated answer: when the stored phase
\* is reteach and submit_practice_answer evaluates an answer, the stored
\* phase is then teaching, assessment or wrapup, never still reteach
C25_ReteachLeftOnNextAnswer ==
    [][\A r \in AnswerEvalReplies :
          (session.current_phase = "reteach" /\ PracticeStep(r))
              => session'.current_phase \in {"teaching", "assessment", "wrapup"}]_vars

\* C26: in every stored state with a non-empty study plan, all concepts
\* exhausted (current_concept_index = number of concepts) implies that the
\* phase is wrapup
C26_ExhaustedPlanIsWrapup ==
    (/\ session.concepts # <<>>
     /\ session.current_concept_index = Len(session.concepts))
        => session.current_phase = "wrapup"

\* C27: stats.xp_earned never decreases across a request, whatever
\* xp_earned value the service returns for an answer
C27_XpNeverDecreases ==
    [][session'.xp_earned >= session.xp_earned]_vars

\* C28: questions_attempted, questions_correct, hints_used and
\* concepts_mastered never decrease across a request, and
\* questions_correct <= questions_attempted in every stored state
C28_CountersMonotone ==
    /\ [](session.questions_correct <= session.questions_attempted)
    /\ [][/\ session'.questions_attempted >= session.questions_attempted
          /\ session'.questions_correct >= session.questions_correct
          /\ session'.hints_used >= session.hints_used
          /\ session'.concepts_mastered >= session.concepts_mastered]_vars

\* every one of the four counters has been raised, and a plan is generated
\* again after that
C28_Witness ==
    /\ session.questions_attempted > 0
    /\ session.questions_correct > 0
    /\ session.hints_used > 0
    /\ session.concepts_mastered > 0
    /\ session.current_concept_index = 0
    /\ session.concepts # <<>>

\* C29: after n add_message calls on a session, recent_messages holds the
\* last min(n, 10) messages passed, in arrival order (never more than 10),
\* and total_messages is n
C29_RecentMessagesWindow ==
    LET n == Len(conversation.sent)
        recent == conversation.context.recent_messages
    IN  /\ conversation.context.total_messages = n
        /\ Len(recent) = (IF n < 10 THEN n ELSE 10)
        /\ \A i \in 1..Len(recent) : recent[i] = conversation.sent[n - Len(recent) + i]

\* more than ten messages have been added
C29_Witness ==
    /\ Len(conversation.sent) = RECENT_MESSAGES + 2
    /\ conversation.context.recent_messages[1][1] = 3

\* C30: get_hint on an existing session, in any phase and for any concept,
\* raises hints_used by exactly 1 and leaves the phase, the concept index,
\* every concept's attempts, mastery_score and status, questions_attempted,
\* questions_correct and xp_earned as they were (the teaching log, which
\* get_hint only reads, is not part of the record)
C30_HintChangesOnlyHintsUsed ==
    stored =>
        LET o == get_hint(load_session)
        IN  /\ o.response.success
            /\ o.session.hints_used = session.hints_used + 1
            /\ \A field \in DOMAIN session \ {"hints_used"} :
                   o.session[field] = session[field]

\* get_hint has been called on a session that has a current concept with
\* attempts, outside the teaching phase
C30_Witness ==
    /\ stored
    /\ session.hints_used = 1
    /\ session.current_phase = "reteach"
    /\ HasCurrentConcept(session)
    /\ CurrentConcept(session).attempts > 0

\* the options of the parsed question that match the declared answer
MatchingOptions ==
    {i \in 1..Len(grading.q_data.options) :
        IsCorrectOption(grading.q_data.options[i],
                        DeclaredText(grading.q_data, <<>>))}

\* C31: multiple-choice normalization resolves the correct option as the
\* first option, in input order, that matches the declared correct answer
\* (label prefix, case-insensitive text equality or containment), and as
\* the first option, id a, when none matches or the declared answer is empty
C31_FirstMatchingOptionIsCorrect ==
    (~grading.parsed.raised /\ grading.parsed.question.type = "multiple_choice")
        => grading.parsed.question.correct_option_id =
              IF MatchingOptions = {} \/ DeclaredText(grading.q_data, <<>>) = <<>>
              THEN <<"a">>
              ELSE OptionId(CHOOSE i \in MatchingOptions :
                                \A j \in MatchingOptions : i <= j)

\* C32: for a true/false question the evaluator coerces the submitted
\* answer with the truthy tokens of the normalizer: a token s checked
\* against the question normalized from correct answer s is correct, and a
\* submission counts as true exactly when the normalizer takes that text
\* for true
C32_SameTruthyTokens ==
    (grading.result # <<>> /\ grading.parsed.question.type = "true_false")
        => LET answer == grading.answer[1]
               question == grading.parsed.question
               student_bool == (grading.result[1].is_correct = question.correct_answer)
               normalized ==
                   parse_question_from_llm(
                       [grading.q_data EXCEPT !.correct_answer = Text(answer)]).question
           IN  /\ student_bool = normalized.correct_answer
               /\ grading.q_data.correct_answer = Text(answer)
                      => grading.result[1].is_correct

\* C33: for a numeric or equation question the evaluator returns correct
\* iff the submission parses as a number and |submitted - target| <=
\* tolerance (target 4.0, tolerance 0.01: 3.995 and 4.005 accepted, 4.02
\* rejected), with credit 1.0 when correct and 0.0 otherwise; a submission
\* that does not parse is incorrect with credit 0.0, and nothing is raised
C33_NumericWithinTolerance ==
    (grading.result # <<>> /\ grading.parsed.question.type \in {"numeric", "equation"})
        => LET answer == grading.answer[1]
               result == grading.result[1]
               question == grading.parsed.question
               submitted == Float(answer)
               target4 == question.correct_answer = 4000 /\ question.tolerance = 10
           IN  /\ ~result.raised
               /\ result.is_correct =
                      (/\ submitted # <<>>
                       /\ submitted[1] - question.correct_answer <= question.tolerance
                       /\ question.correct_answer - submitted[1] <= question.tolerance)
               /\ result.partial_credit = IF result.is_correct THEN <<1, 1>> ELSE <<0, 1>>
               /\ (target4 /\ answer \in {<<"3", ".", "9", "9", "5">>,
                                          <<"4", ".", "0", "0", "5">>}) => result.is_correct
               /\ (target4 /\ answer = <<"4", ".", "0", "2">>) => ~result.is_correct
               /\ answer \in {<<"a", "b", "c">>, <<>>} => ~result.is_correct

\* an answer at the edge of the tolerance of a question with target 4.0 has
\* been checked, and found correct
C33_Witness ==
    /\ grading.result # <<>>
    /\ grading.parsed.question.type = "equation"
    /\ grading.parsed.question.correct_answer = 4000
    /\ grading.answer[1] = <<"4", ".", "0", "1">>
    /\ grading.result[1].is_correct

\* C34: fill-blank normalization yields a non-empty list of accepted
\* answers for every declared correct answer (a text, a list, an empty
\* list, or none), so that checking a submission against the normalized
\* question returns a result and does not fail
C34_FillBlankHasAcceptedAnswers ==
    (~grading.parsed.raised /\ grading.parsed.question.type = "fill_blank")
        => /\ grading.parsed.question.correct_answers # <<>>
           /\ grading.result # <<>> => ~grading.result[1].raised

\* C35: for every orchestrator operation on an existing session, success
\* or failure, the current_phase of the returned APIResponse is the
\* current_phase of the stored record after the request
C35_ResponsePhaseIsStoredPhase ==
    stored =>
        \A o \in OrchestratorOutcomes :
            ~o.raised => o.response.current_phase = o.session.current_phase

\* C36: skip-concept on a session with a current concept sets that
\* concept's status to skipped, raises current_concept_index by exactly 1
\* and leaves concepts_mastered and every mastery_score as they were; when
\* the skipped concept was the last one the request ends with the session
\* in phase wrapup with status completed; without a current concept the
\* index does not change
C36_SkipConcept ==
    stored =>
        \A r \in TeachingReplies, w \in WrapupReplies :
            LET o == skip_concept(load_session, r, w)
                k == session.current_concept_index + 1
            IN  IF session.concepts # <<>> /\ HasCurrentConcept(session)
                THEN /\ o.session.concepts[k].status = "skipped"
                     /\ o.session.current_concept_index = k
                     /\ o.session.concepts_mastered = session.concepts_mastered
                     /\ \A i \in 1..Len(session.concepts) :
                            o.session.concepts[i].mastery_score
                                = session.concepts[i].mastery_score
                     /\ k = Len(session.concepts)
                            => /\ o.session.current_phase = "wrapup"
                               /\ o.session.status = "completed"
                ELSE o.session.current_concept_index = session.current_concept_index

C38_WrapupIsCompleted ==
    /\ [](session.current_phase = "wrapup" => session.status = "completed")
    /\ [][session.status = "completed" => session'.status = "completed"]_vars

\* the concepts of the plan with status mastered
MasteredConcepts ==
    {i \in 1..Len(session.concepts) : session.concepts[i].status = "mastered"}

\* C39: in every stored state, stats.concepts_mastered is the number of
\* concepts of the current study plan with status mastered, also after
\* generate_study_plan is repeated
C39_MasteredCountMatchesPlan ==
    session.concepts_mastered = Cardinality(MasteredConcepts)

\* C40: no sequence of requests puts the stored current_phase at
\* assessment: the phases reached are topic_selection, diagnostic,
\* plan_generation, teaching, reteach and wrapup only
C40_AssessmentPhaseNeverReached ==
    session.current_phase \in
        {"topic_selection", "diagnostic", "plan_generation", "teaching", "reteach", "wrapup"}

\* the diagnostic has ended and its assessment is written
C40_Witness ==
    /\ session.diagnostic_status = "completed"
    /\ session.assessment # NoAssessment
    /\ session.current_phase = "plan_generation"

====
